---- MODULE Spec2Model ----
(***************************************************************************)
(* Speed-profile resolution of the AV1 encoder                             *)
(* (av1/encoder/speed_features.c).                                         *)
(*                                                                         *)
(* The encoder owns one SPEED_FEATURES record (cpi->sf).  For every frame  *)
(* av1_set_speed_features_framesize_independent and then                   *)
(* av1_set_speed_features_framesize_dependent overwrite it in place from   *)
(* the encoder configuration (cpi->oxcf), the frame header (cpi->common),  *)
(* the rate control and the two-pass statistics.                           *)
(*                                                                         *)
(* Enumerators of the headers are modelled by their names (strings), bit   *)
(* masks by the set of the names of their bits.                            *)
(***************************************************************************)
EXTENDS Integers, Sequences, FiniteSets, TLC

VARIABLES build, ctx, sf, rd, cpi, pc

vars == <<build, ctx, sf, rd, cpi, pc>>

----------------------------------------------------------------------------
(* Bounds of the model *)

\* Largest speed the configuration is drawn from (GOOD has tiers 1..6,
\* REALTIME 1..8, the mesh tables 0..MAX_MESH_SPEED).
MaxSpeed == 9

----------------------------------------------------------------------------
(* Program constants *)

INT_MAX == 2147483647

MAX_MESH_SPEED == 5

MAX_MESH_STEP == 4

MAX_REFS == 6

MAX_MODES == 30

LOW_MOTION_THRESHOLD == 7

\* Build configurations (the CONFIG_* switches of the #if blocks).
Builds ==
  { [EXT_TILE |-> b, EXT_INTER |-> b, EXT_TX |-> b, TX64X64 |-> b,
     EXT_PARTITION |-> b, AOM_QM |-> b] : b \in BOOLEAN }

MAX_SB_SIZE_LOG2(bld) == IF bld.EXT_PARTITION THEN 7 ELSE 6

\* Transform sizes: the index set of intra_y_mode_mask / intra_uv_mode_mask.
TxSizes(bld) ==
  {"TX_4X4", "TX_8X8", "TX_16X16", "TX_32X32"} \cup
  (IF bld.TX64X64 THEN {"TX_64X64"} ELSE {})

\* Block sizes in enum order.
BlockSizeSeq(bld) ==
  << "BLOCK_4X4", "BLOCK_4X8", "BLOCK_8X4", "BLOCK_8X8", "BLOCK_8X16",
     "BLOCK_16X8", "BLOCK_16X16", "BLOCK_16X32", "BLOCK_32X16", "BLOCK_32X32",
     "BLOCK_32X64", "BLOCK_64X32", "BLOCK_64X64" >> \o
  (IF bld.EXT_PARTITION
     THEN << "BLOCK_64X128", "BLOCK_128X64", "BLOCK_128X128" >>
     ELSE << >>)

BlockSizes(bld) == { BlockSizeSeq(bld)[i] : i \in DOMAIN BlockSizeSeq(bld) }

BlockIndex(bld, b) ==
  CHOOSE i \in DOMAIN BlockSizeSeq(bld) : BlockSizeSeq(bld)[i] = b

BLOCK_LARGEST(bld) == IF bld.EXT_PARTITION THEN "BLOCK_128X128" ELSE "BLOCK_64X64"

\* Intra prediction mode masks.
INTRA_ALL ==
  {"DC_PRED", "V_PRED", "H_PRED", "D45_PRED", "D135_PRED", "D117_PRED",
   "D153_PRED", "D207_PRED", "D63_PRED", "TM_PRED"}

INTRA_DC == {"DC_PRED"}

INTRA_DC_H_V == {"DC_PRED", "V_PRED", "H_PRED"}

INTRA_DC_TM_H_V == {"DC_PRED", "TM_PRED", "V_PRED", "H_PRED"}

\* Inter prediction mode masks.
INTER_ALL == {"NEARESTMV", "NEARMV", "ZEROMV", "NEWMV"}

INTER_NEAREST == {"NEARESTMV"}

INTER_NEAREST_NEW_ZERO == {"NEARESTMV", "ZEROMV", "NEWMV"}

INTER_NEAREST_NEAR_NEW == {"NEARESTMV", "NEARMV", "NEWMV"}

\* Sub-8x8 reference slots, bit i of disable_split_mask is RefSeq[i + 1].
RefSeq == << "THR_LAST", "THR_GOLD", "THR_ALTR", "THR_COMP_LA", "THR_COMP_GA",
             "THR_INTRA" >>

DISABLE_ALL_INTER_SPLIT ==
  {"THR_COMP_GA", "THR_COMP_LA", "THR_ALTR", "THR_GOLD", "THR_LAST"}

DISABLE_ALL_SPLIT == {"THR_INTRA"} \cup DISABLE_ALL_INTER_SPLIT

DISABLE_COMPOUND_SPLIT == {"THR_COMP_GA", "THR_COMP_LA"}

LAST_AND_INTRA_SPLIT_ONLY ==
  {"THR_COMP_GA", "THR_COMP_LA", "THR_ALTR", "THR_GOLD"}

\* The mesh search tables.
best_quality_mesh_pattern ==
  << [range |-> 64, interval |-> 4], [range |-> 28, interval |-> 2],
     [range |-> 15, interval |-> 1], [range |-> 7, interval |-> 1] >>

good_quality_mesh_patterns ==
  << << [range |-> 64, interval |-> 8], [range |-> 28, interval |-> 4],
        [range |-> 15, interval |-> 1], [range |-> 7, interval |-> 1] >>,
     << [range |-> 64, interval |-> 8], [range |-> 28, interval |-> 4],
        [range |-> 15, interval |-> 1], [range |-> 7, interval |-> 1] >>,
     << [range |-> 64, interval |-> 8], [range |-> 14, interval |-> 2],
        [range |-> 7, interval |-> 1], [range |-> 7, interval |-> 1] >>,
     << [range |-> 64, interval |-> 16], [range |-> 24, interval |-> 8],
        [range |-> 12, interval |-> 4], [range |-> 7, interval |-> 1] >>,
     << [range |-> 64, interval |-> 16], [range |-> 24, interval |-> 8],
        [range |-> 12, interval |-> 4], [range |-> 7, interval |-> 1] >>,
     << [range |-> 64, interval |-> 16], [range |-> 24, interval |-> 8],
        [range |-> 12, interval |-> 4], [range |-> 7, interval |-> 1] >> >>

good_quality_max_mesh_pct == << 50, 25, 15, 5, 1, 1 >>

AOMMIN(a, b) == IF a < b THEN a ELSE b

Bool(b) == IF b THEN 1 ELSE 0

\* 1 << n
Shl1(n) == 2 ^ n

----------------------------------------------------------------------------
(* The encoding context: what the resolvers read.                          *)

Modes == {"BEST", "GOOD", "REALTIME"}

Speeds == 0 .. MaxSpeed

\* <<width, height>>: below 720p, exactly 720p, exactly 1080p, above 1080p.
Geometries ==
  { <<640, 480>>, <<1280, 720>>, <<1920, 1080>>, <<3840, 2160>> }

KeyKind == [frame_type |-> "KEY_FRAME", intra_only |-> 0, refresh_gf_arf |-> 1]

GoldenKind ==
  [frame_type |-> "INTER_FRAME", intra_only |-> 0, refresh_gf_arf |-> 1]

InterKind ==
  [frame_type |-> "INTER_FRAME", intra_only |-> 0, refresh_gf_arf |-> 0]

\* Frame roles: key frame, golden/alt-ref refresh (boosted inter frame),
\* ordinary inter frame.
FrameKinds == {KeyKind, GoldenKind, InterKind}

\* Rate-control side inputs that come with a frame (quantizer index, distance
\* to the last key frame, type of the previous frame): one sample per role
\* and show_frame value, on both sides of every comparison the code makes.
FrameStatsOf(kind, show) ==
  IF kind = KeyKind
    THEN (IF show = 1
            THEN [base_qindex |-> 100, frames_since_key |-> 0,
                  last_frame_type |-> "INTER_FRAME"]
            ELSE [base_qindex |-> 200, frames_since_key |-> 0,
                  last_frame_type |-> "KEY_FRAME"])
  ELSE IF kind = GoldenKind
    THEN (IF show = 1
            THEN [base_qindex |-> 200, frames_since_key |-> 3,
                  last_frame_type |-> "INTER_FRAME"]
            ELSE [base_qindex |-> 250, frames_since_key |-> 9,
                  last_frame_type |-> "KEY_FRAME"])
  ELSE (IF show = 1
          THEN [base_qindex |-> 250, frames_since_key |-> 1,
                last_frame_type |-> "KEY_FRAME"]
          ELSE [base_qindex |-> 100, frames_since_key |-> 7,
                last_frame_type |-> "INTER_FRAME"])

\* Remaining switches of the configuration.
Tunings ==
  { [lossless |-> 0, frame_periodic_boost |-> 0],
    [lossless |-> 1, frame_periodic_boost |-> 1] }

Contents == {"AOM_CONTENT_DEFAULT", "AOM_CONTENT_SCREEN"}

FrContentTypes == {"FC_NORMAL", "FC_GRAPHICS_ANIMATION"}

Passes == {0, 1, 2}

\* Configuration of an encoder instance (cpi->oxcf and the coded size).
Configs ==
  [ mode : Modes, speed : Speeds, pass : Passes, content : Contents,
    tuning : Tunings, geometry : Geometries ]

\* Per-frame inputs.
Frames ==
  { [ kind |-> k, show_frame |-> sh, stats |-> FrameStatsOf(k, sh),
      fr_content_type |-> fc, internal_image_edge |-> e ] :
      k \in FrameKinds, sh \in {0, 1}, fc \in FrContentTypes, e \in {0, 1} }

\* The context the resolvers see, flattened.
MkContext(cfg, fr) ==
  [ mode |-> cfg.mode, speed |-> cfg.speed, pass |-> cfg.pass,
    content |-> cfg.content, lossless |-> cfg.tuning.lossless,
    frame_periodic_boost |-> cfg.tuning.frame_periodic_boost,
    width |-> cfg.geometry[1], height |-> cfg.geometry[2],
    frame_type |-> fr.kind.frame_type, intra_only |-> fr.kind.intra_only,
    refresh_gf_arf |-> fr.kind.refresh_gf_arf,
    show_frame |-> fr.show_frame,
    base_qindex |-> fr.stats.base_qindex,
    frames_since_key |-> fr.stats.frames_since_key,
    last_frame_type |-> fr.stats.last_frame_type,
    fr_content_type |-> fr.fr_content_type,
    internal_image_edge |-> fr.internal_image_edge ]

----------------------------------------------------------------------------
(* Helpers of the encoder the resolvers call.                              *)

frame_is_intra_only(c) ==
  Bool(c.frame_type = "KEY_FRAME" \/ c.intra_only = 1)

frame_is_kf_gf_arf(c) ==
  Bool(frame_is_intra_only(c) = 1 \/ c.refresh_gf_arf = 1)

frame_is_boosted(c) == frame_is_kf_gf_arf(c)

is_lossless_requested(c) == c.lossless

av1_internal_image_edge(c) == c.internal_image_edge

IsLargeFrame(c) == AOMMIN(c.width, c.height) >= 720

----------------------------------------------------------------------------
(* set_partition_min_limit                                                 *)

\* unsigned int screen_area = cm->width * cm->height; the coded sizes of
\* Geometries keep the product far below 2^31, so it is the exact area.
screen_area(c) == c.width * c.height

\* Mutant of set_partition_min_limit: <= where the code compares with <.
set_partition_min_limit_Inclusive(c) ==
  IF screen_area(c) <= 1280 * 720 THEN "BLOCK_4X4"
  ELSE IF screen_area(c) <= 1920 * 1080 THEN "BLOCK_8X8"
  ELSE "BLOCK_16X16"

set_partition_min_limit(c) ==
  IF screen_area(c) < 1280 * 720 THEN "BLOCK_4X4"
  ELSE IF screen_area(c) < 1920 * 1080 THEN "BLOCK_8X8"
  ELSE "BLOCK_16X16"

\* f with the entries at keys (those that exist) set to v
SetEntries(f, keys, v) == [k \in DOMAIN f |-> IF k \in keys THEN v ELSE f[k]]

----------------------------------------------------------------------------
(* set_good_speed_feature_framesize_dependent                              *)

GoodDepTier1(c, s) ==
  IF IsLargeFrame(c)
    THEN [s EXCEPT
            !.disable_split_mask =
               IF c.show_frame # 0 THEN DISABLE_ALL_SPLIT
                                   ELSE DISABLE_ALL_INTER_SPLIT,
            !.partition_search_breakout_dist_thr = Shl1(23)]
    ELSE [s EXCEPT
            !.disable_split_mask = DISABLE_COMPOUND_SPLIT,
            !.partition_search_breakout_dist_thr = Shl1(21)]

GoodDepTier2(c, s) ==
  LET t == IF IsLargeFrame(c)
             THEN [s EXCEPT
                     !.disable_split_mask =
                        IF c.show_frame # 0 THEN DISABLE_ALL_SPLIT
                                            ELSE DISABLE_ALL_INTER_SPLIT,
                     !.adaptive_pred_interp_filter = 0,
                     !.partition_search_breakout_dist_thr = Shl1(24),
                     !.partition_search_breakout_rate_thr = 120]
             ELSE [s EXCEPT
                     !.disable_split_mask = LAST_AND_INTRA_SPLIT_ONLY,
                     !.partition_search_breakout_dist_thr = Shl1(22),
                     !.partition_search_breakout_rate_thr = 100]
  IN [t EXCEPT !.rd_auto_partition_min_limit = set_partition_min_limit(c)]

\* Mutant of GoodDepTier3: the branches of the frame size test are swapped.
GoodDepTier3_Swapped(c, s) ==
  IF ~IsLargeFrame(c)
    THEN [s EXCEPT
            !.disable_split_mask = DISABLE_ALL_SPLIT,
            !.schedule_mode_search = Bool(c.base_qindex < 220),
            !.partition_search_breakout_dist_thr = Shl1(25),
            !.partition_search_breakout_rate_thr = 200]
    ELSE [s EXCEPT
            !.max_intra_bsize = "BLOCK_32X32",
            !.disable_split_mask = DISABLE_ALL_INTER_SPLIT,
            !.schedule_mode_search = Bool(c.base_qindex < 175),
            !.partition_search_breakout_dist_thr = Shl1(23),
            !.partition_search_breakout_rate_thr = 120]

GoodDepTier3(c, s) ==
  IF IsLargeFrame(c)
    THEN [s EXCEPT
            !.disable_split_mask = DISABLE_ALL_SPLIT,
            !.schedule_mode_search = Bool(c.base_qindex < 220),
            !.partition_search_breakout_dist_thr = Shl1(25),
            !.partition_search_breakout_rate_thr = 200]
    ELSE [s EXCEPT
            !.max_intra_bsize = "BLOCK_32X32",
            !.disable_split_mask = DISABLE_ALL_INTER_SPLIT,
            !.schedule_mode_search = Bool(c.base_qindex < 175),
            !.partition_search_breakout_dist_thr = Shl1(23),
            !.partition_search_breakout_rate_thr = 120]

\* The two-pass graphics/animation or internal-edge reset of the mask.
GoodDepContentReset(c, s, speed) ==
  IF speed >= 1 /\ c.pass = 2 /\
     (c.fr_content_type = "FC_GRAPHICS_ANIMATION" \/
      av1_internal_image_edge(c) # 0)
    THEN [s EXCEPT !.disable_split_mask = DISABLE_COMPOUND_SPLIT]
    ELSE s

GoodDepTier4(c, s) ==
  [s EXCEPT
     !.partition_search_breakout_dist_thr =
        IF IsLargeFrame(c) THEN Shl1(26) ELSE Shl1(24),
     !.disable_split_mask = DISABLE_ALL_SPLIT]

set_good_speed_feature_framesize_dependent(c, s, speed) ==
  LET s1 == IF speed >= 1 THEN GoodDepTier1(c, s) ELSE s
      s2 == IF speed >= 2 THEN GoodDepTier2(c, s1) ELSE s1
      s3 == IF speed >= 3 THEN GoodDepTier3(c, s2) ELSE s2
      s3r == GoodDepContentReset(c, s3, speed)
  IN IF speed >= 4 THEN GoodDepTier4(c, s3r) ELSE s3r

----------------------------------------------------------------------------
(* set_good_speed_feature                                                  *)

GoodTier1(s) ==
  [s EXCEPT !.tx_type_search.fast_intra_tx_type_search = 1,
            !.tx_type_search.fast_inter_tx_type_search = 1]

GoodTier2(bld, c, s) ==
  LET t == [s EXCEPT
              !.use_square_partition_only =
                 IF c.fr_content_type = "FC_GRAPHICS_ANIMATION" \/
                    av1_internal_image_edge(c) # 0
                   THEN 1 - frame_is_boosted(c)
                   ELSE 1 - frame_is_intra_only(c),
              !.less_rectangular_check = 1,
              !.use_rd_breakout = 1,
              !.adaptive_motion_search = 1,
              !.mv.auto_mv_step_size = 1,
              !.adaptive_rd_thresh = 1,
              !.mv.subpel_iters_per_step = 1,
              !.mode_skip_start = 10,
              !.adaptive_pred_interp_filter = 1,
              !.recode_loop = "ALLOW_RECODE_KFARFGF",
              !.intra_y_mode_mask =
                 SetEntries(@, {"TX_64X64", "TX_32X32", "TX_16X16"}, INTRA_DC_H_V),
              !.intra_uv_mode_mask =
                 SetEntries(@, {"TX_64X64", "TX_32X32", "TX_16X16"}, INTRA_DC_H_V),
              !.tx_size_search_breakout = 1,
              !.partition_search_breakout_rate_thr = 80,
              !.tx_type_search.prune_mode = "PRUNE_ONE",
              !.use_transform_domain_distortion = 1]
  IN IF bld.EXT_INTER
       THEN [t EXCEPT !.disable_wedge_search_var_thresh = 100,
                      !.fast_wedge_sign_estimate = 1]
       ELSE t

SkipFlagsInter ==
  {"FLAG_SKIP_INTRA_DIRMISMATCH", "FLAG_SKIP_INTRA_BESTINTER",
   "FLAG_SKIP_COMP_BESTINTRA", "FLAG_SKIP_INTRA_LOWVAR"}

GoodTier3(bld, c, s) ==
  LET t == [s EXCEPT
              !.tx_size_search_method =
                 IF frame_is_boosted(c) # 0 THEN "USE_FULL_RD"
                                            ELSE "USE_LARGESTALL",
              !.mode_search_skip_flags =
                 IF c.frame_type = "KEY_FRAME" THEN {} ELSE SkipFlagsInter,
              !.disable_filter_search_var_thresh = 100,
              !.comp_inter_joint_search_thresh = "BLOCK_SIZES",
              !.auto_min_max_partition_size = "RELAXED_NEIGHBORING_MIN_MAX",
              !.allow_partition_search_skip = 1,
              !.use_upsampled_references = 0,
              !.adaptive_rd_thresh = 2]
  IN IF bld.EXT_TX THEN [t EXCEPT !.tx_type_search.prune_mode = "PRUNE_TWO"]
                   ELSE t

GoodTier4(c, s, boosted) ==
  [s EXCEPT
     !.use_square_partition_only = 1 - frame_is_intra_only(c),
     !.tx_size_search_method =
        IF frame_is_intra_only(c) # 0 THEN "USE_FULL_RD" ELSE "USE_LARGESTALL",
     !.mv.subpel_search_method = "SUBPEL_TREE_PRUNED",
     !.adaptive_pred_interp_filter = 0,
     !.adaptive_mode_search = 1,
     !.cb_partition_search = 1 - boosted,
     !.cb_pred_filter_search = 1,
     !.alt_ref_search_fp = 1,
     !.recode_loop = "ALLOW_RECODE_KFMAXBW",
     !.adaptive_rd_thresh = 3,
     !.mode_skip_start = 6,
     !.intra_y_mode_mask = SetEntries(@, {"TX_64X64", "TX_32X32"}, INTRA_DC),
     !.intra_uv_mode_mask = SetEntries(@, {"TX_64X64", "TX_32X32"}, INTRA_DC),
     !.adaptive_interp_filter_search = 1]

GoodTier5(c, s) ==
  [s EXCEPT
     !.use_square_partition_only = 1,
     !.tx_size_search_method = "USE_LARGESTALL",
     !.mv.search_method = "BIGDIA",
     !.mv.subpel_search_method = "SUBPEL_TREE_PRUNED_MORE",
     !.adaptive_rd_thresh = 4,
     !.mode_search_skip_flags =
        IF c.frame_type # "KEY_FRAME" THEN @ \cup {"FLAG_EARLY_TERMINATE"}
                                      ELSE @,
     !.disable_filter_search_var_thresh = 200,
     !.use_fast_coef_updates = "ONE_LOOP_REDUCED",
     !.use_fast_coef_costing = 1,
     !.partition_search_breakout_rate_thr = 300]

\* Mutant of GoodTier6: the loop assigns INTRA_DC_H_V instead of INTRA_DC.
GoodTier6_WideMasks(s) ==
  [s EXCEPT
     !.optimize_coefficients = 0,
     !.mv.search_method = "HEX",
     !.disable_filter_search_var_thresh = 500,
     !.intra_y_mode_mask = [i \in DOMAIN @ |-> INTRA_DC_H_V],
     !.intra_uv_mode_mask = [i \in DOMAIN @ |-> INTRA_DC_H_V],
     !.partition_search_breakout_rate_thr = 500,
     !.mv.reduce_first_step_size = 1,
     !.simple_model_rd_from_var = 1]

GoodTier6(s) ==
  [s EXCEPT
     !.optimize_coefficients = 0,
     !.mv.search_method = "HEX",
     !.disable_filter_search_var_thresh = 500,
     !.intra_y_mode_mask = [i \in DOMAIN @ |-> INTRA_DC],
     !.intra_uv_mode_mask = [i \in DOMAIN @ |-> INTRA_DC],
     !.partition_search_breakout_rate_thr = 500,
     !.mv.reduce_first_step_size = 1,
     !.simple_model_rd_from_var = 1]

set_good_speed_feature(bld, c, s, speed) ==
  LET boosted == frame_is_boosted(c)
      s1 == IF speed >= 1 THEN GoodTier1(s) ELSE s
      s2 == IF speed >= 2 THEN GoodTier2(bld, c, s1) ELSE s1
      s3 == IF speed >= 3 THEN GoodTier3(bld, c, s2) ELSE s2
      s4 == IF speed >= 4 THEN GoodTier4(c, s3, boosted) ELSE s3
      s5 == IF speed >= 5 THEN GoodTier5(c, s4) ELSE s4
  IN IF speed >= 6 THEN GoodTier6(s5) ELSE s5

----------------------------------------------------------------------------
(* set_rt_speed_feature_framesize_dependent                                *)

RtDepTier1(c, s) ==
  [s EXCEPT
     !.disable_split_mask =
        IF IsLargeFrame(c)
          THEN (IF c.show_frame # 0 THEN DISABLE_ALL_SPLIT
                                    ELSE DISABLE_ALL_INTER_SPLIT)
          ELSE DISABLE_COMPOUND_SPLIT]

RtDepTier2(c, s) ==
  [s EXCEPT
     !.disable_split_mask =
        IF IsLargeFrame(c)
          THEN (IF c.show_frame # 0 THEN DISABLE_ALL_SPLIT
                                    ELSE DISABLE_ALL_INTER_SPLIT)
          ELSE LAST_AND_INTRA_SPLIT_ONLY]

RtDepTier5(c, s) ==
  [s EXCEPT
     !.partition_search_breakout_dist_thr =
        IF IsLargeFrame(c) THEN Shl1(25) ELSE Shl1(23)]

set_rt_speed_feature_framesize_dependent(c, s, speed) ==
  LET s1 == IF speed >= 1 THEN RtDepTier1(c, s) ELSE s
      s2 == IF speed >= 2 THEN RtDepTier2(c, s1) ELSE s1
  IN IF speed >= 5 THEN RtDepTier5(c, s2) ELSE s2

----------------------------------------------------------------------------
(* set_rt_speed_feature                                                    *)

RtBase(bld, s) ==
  LET t == [s EXCEPT
              !.static_segmentation = 0,
              !.adaptive_rd_thresh = 1,
              !.use_fast_coef_costing = 1,
              !.allow_exhaustive_searches = 0,
              !.exhaustive_searches_thresh = INT_MAX,
              !.use_upsampled_references = 0,
              !.use_transform_domain_distortion = 1]
  IN IF bld.EXT_INTER
       THEN [t EXCEPT !.disable_wedge_search_var_thresh = 100,
                      !.fast_wedge_sign_estimate = 1]
       ELSE t

RtTier1(c, s) ==
  [s EXCEPT
     !.use_square_partition_only = 1 - frame_is_intra_only(c),
     !.less_rectangular_check = 1,
     !.tx_size_search_method =
        IF frame_is_intra_only(c) # 0 THEN "USE_FULL_RD" ELSE "USE_LARGESTALL",
     !.use_rd_breakout = 1,
     !.adaptive_motion_search = 1,
     !.adaptive_pred_interp_filter = 1,
     !.mv.auto_mv_step_size = 1,
     !.adaptive_rd_thresh = 2,
     !.intra_y_mode_mask = SetEntries(@, {"TX_64X64", "TX_32X32"}, INTRA_DC_H_V),
     !.intra_uv_mode_mask =
        SetEntries(@, {"TX_64X64", "TX_32X32", "TX_16X16"}, INTRA_DC_H_V)]

RtTier2(c, s) ==
  [s EXCEPT
     !.mode_search_skip_flags =
        IF c.frame_type = "KEY_FRAME" THEN {} ELSE SkipFlagsInter,
     !.adaptive_pred_interp_filter = 2,
     !.disable_filter_search_var_thresh = 50,
     !.comp_inter_joint_search_thresh = "BLOCK_SIZES",
     !.auto_min_max_partition_size = "RELAXED_NEIGHBORING_MIN_MAX",
     !.lf_motion_threshold = LOW_MOTION_THRESHOLD,
     !.adjust_partitioning_from_last_frame = 1,
     !.last_partitioning_redo_frequency = 3,
     !.mode_skip_start = 11,
     !.intra_y_mode_mask = SetEntries(@, {"TX_16X16"}, INTRA_DC_H_V)]

RtTier3(s) ==
  [s EXCEPT
     !.use_square_partition_only = 1,
     !.disable_filter_search_var_thresh = 100,
     !.mv.subpel_iters_per_step = 1,
     !.adaptive_rd_thresh = 4,
     !.mode_skip_start = 6,
     !.optimize_coefficients = 0,
     !.disable_split_mask = DISABLE_ALL_SPLIT,
     !.lpf_pick = "LPF_PICK_FROM_Q"]

RtTier4(c, s, frames_since_key) ==
  LET t == [s EXCEPT !.last_partitioning_redo_frequency = 4]
  IN [t EXCEPT
        !.adaptive_rd_thresh = 5,
        !.use_fast_coef_costing = 0,
        !.auto_min_max_partition_size = "STRICT_NEIGHBORING_MIN_MAX",
        !.adjust_partitioning_from_last_frame =
           Bool(c.last_frame_type # c.frame_type \/
                0 = (frames_since_key + 1) % t.last_partitioning_redo_frequency),
        !.mv.subpel_force_stop = 1,
        !.intra_y_mode_mask =
           [i \in DOMAIN @ |->
              IF i \in {"TX_64X64", "TX_32X32"} THEN INTRA_DC ELSE INTRA_DC_H_V],
        !.intra_uv_mode_mask = [i \in DOMAIN @ |-> INTRA_DC],
        !.frame_parameter_update = 0,
        !.mv.search_method = "FAST_HEX",
        !.inter_mode_mask =
           [b \in DOMAIN @ |->
              IF b = "BLOCK_32X32" THEN INTER_NEAREST_NEAR_NEW
              ELSE IF b \in {"BLOCK_32X64", "BLOCK_64X32", "BLOCK_64X64",
                             "BLOCK_64X128", "BLOCK_128X64", "BLOCK_128X128"}
                THEN INTER_NEAREST
              ELSE @[b]],
        !.max_intra_bsize = "BLOCK_32X32"]

RtTier5(bld, c, s, content, is_keyframe, frames_since_key) ==
  LET t == [s EXCEPT
              !.auto_min_max_partition_size =
                 IF is_keyframe # 0 THEN "RELAXED_NEIGHBORING_MIN_MAX"
                                    ELSE "STRICT_NEIGHBORING_MIN_MAX",
              !.default_max_partition_size = "BLOCK_32X32",
              !.default_min_partition_size = "BLOCK_8X8",
              !.force_frame_boost =
                 Bool(is_keyframe # 0 \/
                      frames_since_key %
                        (s.last_partitioning_redo_frequency * 2) = 1),
              !.max_delta_qindex = IF is_keyframe # 0 THEN 20 ELSE 15,
              !.partition_search_type = "REFERENCE_PARTITION",
              !.inter_mode_mask =
                 SetEntries(@, {"BLOCK_32X32", "BLOCK_32X64", "BLOCK_64X32",
                                "BLOCK_64X64", "BLOCK_64X128", "BLOCK_128X64",
                                "BLOCK_128X128"}, INTER_NEAREST_NEW_ZERO),
              !.adaptive_rd_thresh = 2,
              !.reuse_inter_pred_sby = 1,
              !.partition_search_breakout_rate_thr = 200,
              !.coeff_prob_appx_step = 4,
              !.use_fast_coef_updates =
                 IF is_keyframe # 0 THEN "TWO_LOOP" ELSE "ONE_LOOP_REDUCED",
              !.mode_search_skip_flags = {"FLAG_SKIP_INTRA_DIRMISMATCH"},
              !.tx_size_search_method =
                 IF is_keyframe # 0 THEN "USE_LARGESTALL" ELSE "USE_TX_8X8",
              !.simple_model_rd_from_var = 1]
  IN IF is_keyframe = 0
       THEN [t EXCEPT
               !.intra_y_mode_bsize_mask =
                  IF content = "AOM_CONTENT_SCREEN"
                    THEN [b \in BlockSizes(bld) |-> INTRA_DC_TM_H_V]
                    ELSE [b \in BlockSizes(bld) |->
                            IF BlockIndex(bld, b) >= BlockIndex(bld, "BLOCK_16X16")
                              THEN INTRA_DC ELSE INTRA_DC_H_V]]
       ELSE t

\* Mutant of RtTier6: the motion search method is not reset to NSTEP.
RtTier6_KeepSearchMethod(s) ==
  [s EXCEPT
     !.partition_search_type = "VAR_BASED_PARTITION",
     !.mv.reduce_first_step_size = 1]

RtTier6(s) ==
  [s EXCEPT
     !.partition_search_type = "VAR_BASED_PARTITION",
     !.mv.search_method = "NSTEP",
     !.mv.reduce_first_step_size = 1]

RtTier7(s) ==
  [s EXCEPT
     !.adaptive_rd_thresh = 3,
     !.mv.search_method = "FAST_DIAMOND",
     !.mv.fullpel_search_step_param = 10]

RtTier8(s) ==
  [s EXCEPT
     !.adaptive_rd_thresh = 4,
     !.mv.subpel_force_stop = 2,
     !.lpf_pick = "LPF_PICK_MINIMAL_LPF"]

\* Mutant of set_rt_speed_feature: the last tier is guarded by speed == 8.
set_rt_speed_feature_ExactTier8(bld, c, s, speed, content) ==
  LET is_keyframe == Bool(c.frame_type = "KEY_FRAME")
      frames_since_key == IF is_keyframe # 0 THEN 0 ELSE c.frames_since_key
      s0 == RtBase(bld, s)
      s1 == IF speed >= 1 THEN RtTier1(c, s0) ELSE s0
      s2 == IF speed >= 2 THEN RtTier2(c, s1) ELSE s1
      s3 == IF speed >= 3 THEN RtTier3(s2) ELSE s2
      s4 == IF speed >= 4 THEN RtTier4(c, s3, frames_since_key) ELSE s3
      s5 == IF speed >= 5
              THEN RtTier5(bld, c, s4, content, is_keyframe, frames_since_key)
              ELSE s4
      s6 == IF speed >= 6 THEN RtTier6(s5) ELSE s5
      s7 == IF speed >= 7 THEN RtTier7(s6) ELSE s6
  IN IF speed = 8 THEN RtTier8(s7) ELSE s7

set_rt_speed_feature(bld, c, s, speed, content) ==
  LET is_keyframe == Bool(c.frame_type = "KEY_FRAME")
      frames_since_key == IF is_keyframe # 0 THEN 0 ELSE c.frames_since_key
      s0 == RtBase(bld, s)
      s1 == IF speed >= 1 THEN RtTier1(c, s0) ELSE s0
      s2 == IF speed >= 2 THEN RtTier2(c, s1) ELSE s1
      s3 == IF speed >= 3 THEN RtTier3(s2) ELSE s2
      s4 == IF speed >= 4 THEN RtTier4(c, s3, frames_since_key) ELSE s3
      s5 == IF speed >= 5
              THEN RtTier5(bld, c, s4, content, is_keyframe, frames_since_key)
              ELSE s4
      s6 == IF speed >= 6 THEN RtTier6(s5) ELSE s5
      s7 == IF speed >= 7 THEN RtTier7(s6) ELSE s6
  IN IF speed >= 8 THEN RtTier8(s7) ELSE s7

----------------------------------------------------------------------------
(* av1_set_speed_features_framesize_independent                            *)

\* "best quality defaults"
BestQualityDefaults(bld, c, s) ==
  [s EXCEPT
     !.frame_parameter_update = 1,
     !.mv = [search_method |-> "NSTEP",
             subpel_search_method |-> "SUBPEL_TREE",
             subpel_iters_per_step |-> 2,
             subpel_force_stop |-> 0,
             reduce_first_step_size |-> 0,
             auto_mv_step_size |-> 0,
             fullpel_search_step_param |-> 6],
     !.recode_loop = "ALLOW_RECODE",
     !.optimize_coefficients = 1 - is_lossless_requested(c),
     !.coeff_prob_appx_step = 1,
     !.comp_inter_joint_search_thresh = "BLOCK_4X4",
     !.adaptive_rd_thresh = 0,
     !.tx_size_search_method = "USE_FULL_RD",
     !.adaptive_motion_search = 0,
     !.adaptive_pred_interp_filter = 0,
     !.adaptive_mode_search = 0,
     !.cb_pred_filter_search = 0,
     !.cb_partition_search = 0,
     !.alt_ref_search_fp = 0,
     !.partition_search_type = "SEARCH_PARTITION",
     !.tx_type_search = [prune_mode |-> "NO_PRUNE",
                         fast_intra_tx_type_search |-> 0,
                         fast_inter_tx_type_search |-> 0],
     !.less_rectangular_check = 0,
     !.use_square_partition_only = 0,
     !.auto_min_max_partition_size = "NOT_IN_USE",
     !.rd_auto_partition_min_limit = "BLOCK_4X4",
     !.default_max_partition_size = BLOCK_LARGEST(bld),
     !.default_min_partition_size = "BLOCK_4X4",
     !.adjust_partitioning_from_last_frame = 0,
     !.last_partitioning_redo_frequency = 4,
     !.disable_split_mask = {},
     !.mode_search_skip_flags = {},
     !.force_frame_boost = 0,
     !.max_delta_qindex = 0,
     !.disable_filter_search_var_thresh = 0,
     !.adaptive_interp_filter_search = 0,
     !.allow_partition_search_skip = 0,
     !.use_upsampled_references = IF bld.EXT_TILE THEN 0 ELSE 1,
     !.disable_wedge_search_var_thresh = IF bld.EXT_INTER THEN 0 ELSE @,
     !.fast_wedge_sign_estimate = IF bld.EXT_INTER THEN 0 ELSE @,
     !.intra_y_mode_mask = [i \in TxSizes(bld) |-> INTRA_ALL],
     !.intra_uv_mode_mask = [i \in TxSizes(bld) |-> INTRA_ALL],
     !.use_rd_breakout = 0,
     !.lpf_pick = "LPF_PICK_FROM_FULL_IMAGE",
     !.use_fast_coef_updates = "TWO_LOOP",
     !.use_fast_coef_costing = 0,
     !.mode_skip_start = MAX_MODES,
     !.schedule_mode_search = 0,
     !.inter_mode_mask = [b \in BlockSizes(bld) |-> INTER_ALL],
     !.max_intra_bsize = BLOCK_LARGEST(bld),
     !.reuse_inter_pred_sby = 0,
     !.always_this_block_size = "BLOCK_16X16",
     !.search_type_check_frequency = 50,
     !.recode_tolerance = 25,
     !.default_interp_filter = "SWITCHABLE",
     !.tx_size_search_breakout = 0,
     !.partition_search_breakout_dist_thr = 0,
     !.partition_search_breakout_rate_thr = 0,
     !.simple_model_rd_from_var = 0,
     !.use_transform_domain_distortion = IF bld.EXT_TILE THEN 1 ELSE 0]

\* The tiered resolver of the configured mode (BEST has none).
IndependentTiers(bld, c, s) ==
  IF c.mode = "REALTIME" THEN set_rt_speed_feature(bld, c, s, c.speed, c.content)
  ELSE IF c.mode = "GOOD" THEN set_good_speed_feature(bld, c, s, c.speed)
  ELSE s

\* partition_search_breakout_dist_thr is set assuming max 64x64 blocks.
NormaliseBreakout(bld, s) ==
  IF MAX_SB_SIZE_LOG2(bld) > 6
    THEN [s EXCEPT
            !.partition_search_breakout_dist_thr =
               @ * Shl1(2 * (MAX_SB_SIZE_LOG2(bld) - 6))]
    ELSE s

\* Index into the good quality mesh tables.
MeshSpeed(c) == IF c.speed > MAX_MESH_SPEED THEN MAX_MESH_SPEED ELSE c.speed

\* Mutant of ExhaustiveThresh: the threshold is doubled from speed 2 on.
ExhaustiveThresh_LateDoubling(c) ==
  IF c.mode = "BEST"
    THEN (IF c.fr_content_type = "FC_GRAPHICS_ANIMATION"
            THEN Shl1(20) ELSE Shl1(21))
    ELSE
      LET thresh == IF c.fr_content_type = "FC_GRAPHICS_ANIMATION"
                      THEN Shl1(22) ELSE Shl1(23)
      IN IF MeshSpeed(c) > 1 THEN thresh * 2 ELSE thresh

\* The value left in exhaustive_searches_thresh.
ExhaustiveThresh(c) ==
  IF c.mode = "BEST"
    THEN (IF c.fr_content_type = "FC_GRAPHICS_ANIMATION"
            THEN Shl1(20) ELSE Shl1(21))
    ELSE
      LET thresh == IF c.fr_content_type = "FC_GRAPHICS_ANIMATION"
                      THEN Shl1(22) ELSE Shl1(23)
      IN IF MeshSpeed(c) > 0 THEN thresh * 2 ELSE thresh

\* Mutant of MeshSelect: BEST copies row 0 of the good quality table.
MeshSelect_GoodRowInBest(c, s) ==
  LET speed == IF c.mode = "BEST" THEN 0 ELSE MeshSpeed(c)
  IN [s EXCEPT
        !.allow_exhaustive_searches = 1,
        !.exhaustive_searches_thresh = ExhaustiveThresh(c),
        !.max_exaustive_pct =
           IF c.mode = "BEST" THEN 100 ELSE good_quality_max_mesh_pct[speed + 1],
        !.mesh_patterns =
           [i \in 1 .. MAX_MESH_STEP |->
              good_quality_mesh_patterns[speed + 1][i]]]

\* Exhaustive search threshold, cap and mesh pattern.
MeshSelect(c, s) ==
  IF c.mode = "BEST"
    THEN [s EXCEPT
            !.allow_exhaustive_searches = 1,
            !.exhaustive_searches_thresh = ExhaustiveThresh(c),
            !.max_exaustive_pct = 100,
            !.mesh_patterns =
               [i \in 1 .. MAX_MESH_STEP |-> best_quality_mesh_pattern[i]]]
    ELSE
      LET speed == MeshSpeed(c)
      IN [s EXCEPT
            !.allow_exhaustive_searches = 1,
            !.exhaustive_searches_thresh = ExhaustiveThresh(c),
            !.max_exaustive_pct = good_quality_max_mesh_pct[speed + 1],
            !.mesh_patterns =
               [i \in 1 .. MAX_MESH_STEP |->
                  good_quality_mesh_patterns[speed + 1][i]]]

\* Mutant of PassFinalize: the one pass branch is left out.
PassFinalize_FirstPassOnly(c, s) ==
  IF c.pass = 1 THEN [s EXCEPT !.optimize_coefficients = 0] ELSE s

\* First pass: no trellis.  One pass: no recode, no trellis.
PassFinalize(c, s) ==
  LET t == IF c.pass = 1 THEN [s EXCEPT !.optimize_coefficients = 0] ELSE s
  IN IF c.pass = 0
       THEN [t EXCEPT !.recode_loop = "DISALLOW_RECODE",
                      !.optimize_coefficients = 0]
       ELSE t

PeriodicBoost(c, s) ==
  IF c.frame_periodic_boost = 0 THEN [s EXCEPT !.max_delta_qindex = 0] ELSE s

\* The profile av1_set_speed_features_framesize_independent leaves in cpi->sf.
IndependentSf(bld, c, s) ==
  PeriodicBoost(c,
    PassFinalize(c,
      MeshSelect(c,
        NormaliseBreakout(bld,
          IndependentTiers(bld, c,
            BestQualityDefaults(bld, c, s))))))

\* The entry points it binds in cpi and the limits it copies to cpi->td.mb.
IndependentCpi(bld, c, s, old) ==
  [old EXCEPT
     !.full_search_sad = "av1_full_search_sad",
     !.diamond_search_sad = "av1_diamond_search_sad",
     !.find_fractional_mv_step =
        IF s.mv.subpel_search_method = "SUBPEL_TREE"
          THEN "av1_find_best_sub_pixel_tree"
        ELSE IF s.mv.subpel_search_method = "SUBPEL_TREE_PRUNED"
          THEN "av1_find_best_sub_pixel_tree_pruned"
        ELSE IF s.mv.subpel_search_method = "SUBPEL_TREE_PRUNED_MORE"
          THEN "av1_find_best_sub_pixel_tree_pruned_more"
        ELSE IF s.mv.subpel_search_method = "SUBPEL_TREE_PRUNED_EVENMORE"
          THEN "av1_find_best_sub_pixel_tree_pruned_evenmore"
        ELSE @,
     !.optimize =
        IF bld.AOM_QM THEN 0
        ELSE Bool(s.optimize_coefficients = 1 /\ c.pass # 1),
     !.min_partition_size = s.default_min_partition_size,
     !.max_partition_size = s.default_max_partition_size]

----------------------------------------------------------------------------
(* av1_set_speed_features_framesize_dependent                              *)

\* Limit memory usage for high resolutions
LimitUpsampled(c, s) ==
  IF AOMMIN(c.width, c.height) > 1080
    THEN [s EXCEPT !.use_upsampled_references = 0]
    ELSE s

DependentTiers(c, s) ==
  IF c.mode = "REALTIME"
    THEN set_rt_speed_feature_framesize_dependent(c, s, c.speed)
  ELSE IF c.mode = "GOOD"
    THEN set_good_speed_feature_framesize_dependent(c, s, c.speed)
  ELSE s

\* Mutant of SplitFilterFix: the correction is left out.
SplitFilterFix_Omitted(s) == s

\* No adaptive interpolation filter search when every split is disabled.
SplitFilterFix(s) ==
  IF s.disable_split_mask = DISABLE_ALL_SPLIT
    THEN [s EXCEPT !.adaptive_pred_interp_filter = 0]
    ELSE s

\* The profile av1_set_speed_features_framesize_dependent leaves in cpi->sf.
DependentSf(c, s) == SplitFilterFix(DependentTiers(c, LimitUpsampled(c, s)))

\* The masking loop with an else branch that clears the entries of the
\* references whose bit is not set.
MaskedSplitThresh_Restoring(s, r) ==
  [r EXCEPT
     !.thresh_mult_sub8x8 =
        [i \in 0 .. MAX_REFS - 1 |->
           IF RefSeq[i + 1] \in s.disable_split_mask THEN INT_MAX ELSE 0]]

\* Check for masked out split cases.
MaskedSplitThresh(s, r) ==
  [r EXCEPT
     !.thresh_mult_sub8x8 =
        [i \in 0 .. MAX_REFS - 1 |->
           IF RefSeq[i + 1] \in s.disable_split_mask THEN INT_MAX ELSE @[i]]]

\* Both resolvers in the order the encoder runs them.
FullResolve(bld, c, s) == DependentSf(c, IndependentSf(bld, c, s))

----------------------------------------------------------------------------
(* The encoder instance                                                    *)

\* cpi->sf of a freshly allocated (zero filled) encoder.
ZeroedSf(bld) ==
  [ frame_parameter_update |-> 0,
    mv |-> [search_method |-> "UNSET", subpel_search_method |-> "UNSET",
            subpel_iters_per_step |-> 0, subpel_force_stop |-> 0,
            reduce_first_step_size |-> 0, auto_mv_step_size |-> 0,
            fullpel_search_step_param |-> 0],
    recode_loop |-> "UNSET",
    optimize_coefficients |-> 0,
    coeff_prob_appx_step |-> 0,
    comp_inter_joint_search_thresh |-> "UNSET",
    adaptive_rd_thresh |-> 0,
    tx_size_search_method |-> "UNSET",
    adaptive_motion_search |-> 0,
    adaptive_pred_interp_filter |-> 0,
    adaptive_mode_search |-> 0,
    cb_pred_filter_search |-> 0,
    cb_partition_search |-> 0,
    alt_ref_search_fp |-> 0,
    partition_search_type |-> "UNSET",
    tx_type_search |-> [prune_mode |-> "UNSET",
                        fast_intra_tx_type_search |-> 0,
                        fast_inter_tx_type_search |-> 0],
    less_rectangular_check |-> 0,
    use_square_partition_only |-> 0,
    auto_min_max_partition_size |-> "UNSET",
    rd_auto_partition_min_limit |-> "UNSET",
    default_max_partition_size |-> "UNSET",
    default_min_partition_size |-> "UNSET",
    adjust_partitioning_from_last_frame |-> 0,
    last_partitioning_redo_frequency |-> 0,
    disable_split_mask |-> {},
    mode_search_skip_flags |-> {},
    force_frame_boost |-> 0,
    max_delta_qindex |-> 0,
    disable_filter_search_var_thresh |-> 0,
    adaptive_interp_filter_search |-> 0,
    allow_partition_search_skip |-> 0,
    use_upsampled_references |-> 0,
    disable_wedge_search_var_thresh |-> 0,
    fast_wedge_sign_estimate |-> 0,
    intra_y_mode_mask |-> [i \in TxSizes(bld) |-> {}],
    intra_uv_mode_mask |-> [i \in TxSizes(bld) |-> {}],
    use_rd_breakout |-> 0,
    lpf_pick |-> "UNSET",
    use_fast_coef_updates |-> "UNSET",
    use_fast_coef_costing |-> 0,
    mode_skip_start |-> 0,
    schedule_mode_search |-> 0,
    inter_mode_mask |-> [b \in BlockSizes(bld) |-> {}],
    max_intra_bsize |-> "UNSET",
    reuse_inter_pred_sby |-> 0,
    always_this_block_size |-> "UNSET",
    search_type_check_frequency |-> 0,
    recode_tolerance |-> 0,
    default_interp_filter |-> "UNSET",
    tx_size_search_breakout |-> 0,
    partition_search_breakout_dist_thr |-> 0,
    partition_search_breakout_rate_thr |-> 0,
    simple_model_rd_from_var |-> 0,
    use_transform_domain_distortion |-> 0,
    static_segmentation |-> 0,
    allow_exhaustive_searches |-> 0,
    exhaustive_searches_thresh |-> 0,
    max_exaustive_pct |-> 0,
    mesh_patterns |-> [i \in 1 .. MAX_MESH_STEP |-> [range |-> 0, interval |-> 0]],
    lf_motion_threshold |-> 0,
    intra_y_mode_bsize_mask |-> [b \in BlockSizes(bld) |-> {}] ]

\* cpi->rd of a freshly allocated encoder.
ZeroedRd == [thresh_mult_sub8x8 |-> [i \in 0 .. MAX_REFS - 1 |-> 0]]

\* The entry points and cpi->td.mb fields the resolvers write.
ZeroedCpi ==
  [ full_search_sad |-> "NULL", diamond_search_sad |-> "NULL",
    find_fractional_mv_step |-> "NULL", optimize |-> 0,
    min_partition_size |-> "UNSET", max_partition_size |-> "UNSET" ]

\* The frame an encoder starts with.
FirstFrame ==
  [ kind |-> KeyKind, show_frame |-> 1, stats |-> FrameStatsOf(KeyKind, 1),
    fr_content_type |-> "FC_NORMAL", internal_image_edge |-> 0 ]

\* How many of role, show_frame, content class and edge flag differ between
\* the frame of context c and frame fr.
FrameChanges(c, fr) ==
  Bool(fr.kind.frame_type # c.frame_type \/
       fr.kind.refresh_gf_arf # c.refresh_gf_arf) +
  Bool(fr.show_frame # c.show_frame) +
  Bool(fr.fr_content_type # c.fr_content_type) +
  Bool(fr.internal_image_edge # c.internal_image_edge)

\* The frames that may follow: any first frame, afterwards a frame that
\* differs from the previous one in at most one of these inputs.
FollowingFrames(c, first) ==
  IF first THEN Frames ELSE { fr \in Frames : FrameChanges(c, fr) <= 1 }

\* The context with the per-frame inputs replaced.
WithFrame(c, fr) ==
  [c EXCEPT
     !.frame_type = fr.kind.frame_type, !.intra_only = fr.kind.intra_only,
     !.refresh_gf_arf = fr.kind.refresh_gf_arf,
     !.show_frame = fr.show_frame,
     !.base_qindex = fr.stats.base_qindex,
     !.frames_since_key = fr.stats.frames_since_key,
     !.last_frame_type = fr.stats.last_frame_type,
     !.fr_content_type = fr.fr_content_type,
     !.internal_image_edge = fr.internal_image_edge]

Init ==
  /\ build \in Builds
  /\ \E cfg \in Configs : ctx = MkContext(cfg, FirstFrame)
  /\ sf = ZeroedSf(build)
  /\ rd = ZeroedRd
  /\ cpi = ZeroedCpi
  /\ pc = "created"

\* A frame arrives and the size independent resolver runs on it.
av1_set_speed_features_framesize_independent ==
  /\ pc \in {"created", "dependent"}
  /\ \E fr \in FollowingFrames(ctx, pc = "created") :
       /\ ctx' = WithFrame(ctx, fr)
       /\ sf' = IndependentSf(build, ctx', sf)
       /\ cpi' = IndependentCpi(build, ctx', sf', cpi)
  /\ pc' = "independent"
  /\ UNCHANGED <<build, rd>>

\* The size dependent resolver runs once the frame size is known.
av1_set_speed_features_framesize_dependent ==
  /\ pc = "independent"
  /\ sf' = DependentSf(ctx, sf)
  /\ rd' = MaskedSplitThresh(sf', rd)
  /\ pc' = "dependent"
  /\ UNCHANGED <<build, ctx, cpi>>

Next ==
  \/ av1_set_speed_features_framesize_independent
  \/ av1_set_speed_features_framesize_dependent

Spec == Init /\ [][Next]_vars

----------------------------------------------------------------------------
(* Properties                                                              *)

\* Both resolvers have run on the frame of ctx.
Resolved == pc = "dependent"

\* C1: in every fully resolved profile, of every mode, speed, geometry, frame
\* type, show_frame, pass and content class, disable_split_mask =
\* DISABLE_ALL_SPLIT implies adaptive_pred_interp_filter = 0.
C1_AllSplitNoAdaptiveFilter ==
  Resolved /\ sf.disable_split_mask = DISABLE_ALL_SPLIT
    => sf.adaptive_pred_interp_filter = 0

\* A realtime profile whose tiers asked for the adaptive filter search and
\* that ends with every split disabled.
C1_Witness ==
  /\ Resolved
  /\ ctx.mode = "REALTIME" /\ ctx.speed = 2
  /\ sf.disable_split_mask = DISABLE_ALL_SPLIT
  /\ sf.adaptive_pred_interp_filter = 0

\* C2: in every fully resolved profile, pass = 1 gives optimize_coefficients
\* = 0, and pass = 0 gives optimize_coefficients = 0 and recode_loop =
\* DISALLOW_RECODE, whatever the speed tiers assigned.
C2_PassOverride ==
  Resolved =>
    /\ ctx.pass = 1 => sf.optimize_coefficients = 0
    /\ ctx.pass = 0 => /\ sf.optimize_coefficients = 0
                       /\ sf.recode_loop = "DISALLOW_RECODE"

\* A one pass, not lossless GOOD profile at a speed whose tier assigns
\* recode_loop.
C2_Witness ==
  /\ Resolved
  /\ ctx.pass = 0 /\ ctx.lossless = 0 /\ ctx.mode = "GOOD" /\ ctx.speed = 4
  /\ sf.recode_loop = "DISALLOW_RECODE"
  /\ sf.optimize_coefficients = 0

\* C3: full resolution is a function of the context alone: whatever profile
\* the previous frame left, the resolved profile equals the one resolved from
\* a freshly allocated record, field by field.
C3_FunctionOfContext ==
  Resolved => sf = FullResolve(build, ctx, ZeroedSf(build))

\* The speed s profile of the context of the current frame.
ProfileAtSpeed(s) ==
  FullResolve(build, [ctx EXCEPT !.speed = s], ZeroedSf(build))

\* C4: for GOOD and REALTIME, with everything but the speed fixed, the
\* resolved max_exaustive_pct never grows with the speed and the intra Y and
\* UV mode masks of every transform size never regain a mode.
C4_MonotonicInSpeed ==
  Resolved /\ ctx.mode \in {"GOOD", "REALTIME"} =>
    \A s1 \in 0 .. ctx.speed :
      LET lo == ProfileAtSpeed(s1)
      IN /\ sf.max_exaustive_pct <= lo.max_exaustive_pct
         /\ \A t \in TxSizes(build) :
              /\ sf.intra_y_mode_mask[t] \subseteq lo.intra_y_mode_mask[t]
              /\ sf.intra_uv_mode_mask[t] \subseteq lo.intra_uv_mode_mask[t]

\* A realtime profile at a speed where masks were narrowed twice.
C4_Witness ==
  /\ Resolved
  /\ ctx.mode = "REALTIME" /\ ctx.speed = 4
  /\ sf.intra_y_mode_mask["TX_32X32"] = INTRA_DC
  /\ ProfileAtSpeed(1).intra_y_mode_mask["TX_32X32"] = INTRA_DC_H_V
  /\ sf.max_exaustive_pct < ProfileAtSpeed(0).max_exaustive_pct

\* The three area bands, written out.
AreaBand(w, h) ==
  IF w * h < 921600 THEN "BLOCK_4X4"
  ELSE IF w * h < 2073600 THEN "BLOCK_8X8"
  ELSE "BLOCK_16X16"

\* C5: in GOOD mode at speed >= 2 the resolved rd_auto_partition_min_limit is
\* BLOCK_4X4 below 1280*720 pixels, BLOCK_8X8 from exactly 1280*720 up to
\* below 1920*1080 and BLOCK_16X16 from exactly 1920*1080.
C5_PartitionMinLimitBands ==
  Resolved /\ ctx.mode = "GOOD" /\ ctx.speed >= 2 =>
    /\ sf.rd_auto_partition_min_limit = AreaBand(ctx.width, ctx.height)
    /\ ctx.width = 1280 /\ ctx.height = 720
         => sf.rd_auto_partition_min_limit = "BLOCK_8X8"
    /\ ctx.width = 1920 /\ ctx.height = 1080
         => sf.rd_auto_partition_min_limit = "BLOCK_16X16"

\* A GOOD profile for exactly 1280x720.
C5_Witness ==
  /\ Resolved
  /\ ctx.mode = "GOOD" /\ ctx.speed >= 2
  /\ ctx.width = 1280 /\ ctx.height = 720
  /\ sf.rd_auto_partition_min_limit = "BLOCK_8X8"

\* Scenario A: GOOD, speed 3, 640x480, key frame, second pass.
ScenarioA ==
  /\ Resolved
  /\ ctx.mode = "GOOD" /\ ctx.speed = 3
  /\ ctx.width = 640 /\ ctx.height = 480
  /\ ctx.frame_type = "KEY_FRAME" /\ ctx.pass = 2

\* The frame is graphics/animation content or has an internal image edge.
ContentReset ==
  ctx.fr_content_type = "FC_GRAPHICS_ANIMATION" \/ ctx.internal_image_edge # 0

\* C6 as stated: in scenario A, for every content class, edge flag,
\* show_frame and base_qindex, tx_size_search_method = USE_FULL_RD,
\* disable_split_mask = DISABLE_ALL_INTER_SPLIT, max_intra_bsize = BLOCK_32X32.
C6_ScenarioA_AsStated ==
  ScenarioA =>
    /\ sf.tx_size_search_method = "USE_FULL_RD"
    /\ sf.disable_split_mask = DISABLE_ALL_INTER_SPLIT
    /\ sf.max_intra_bsize = "BLOCK_32X32"

\* C6 amended: in scenario A, tx_size_search_method = USE_FULL_RD and
\* max_intra_bsize = BLOCK_32X32 always; disable_split_mask is
\* DISABLE_ALL_INTER_SPLIT when the frame is neither graphics/animation
\* content nor has an internal image edge, and DISABLE_COMPOUND_SPLIT else.
C6_ScenarioA ==
  ScenarioA =>
    /\ sf.tx_size_search_method = "USE_FULL_RD"
    /\ sf.max_intra_bsize = "BLOCK_32X32"
    /\ sf.disable_split_mask =
         IF ContentReset THEN DISABLE_COMPOUND_SPLIT
                         ELSE DISABLE_ALL_INTER_SPLIT

\* Scenario A on a frame of ordinary content without internal edge.
C6_Witness ==
  /\ ScenarioA /\ ~ContentReset
  /\ sf.disable_split_mask = DISABLE_ALL_INTER_SPLIT
  /\ sf.tx_size_search_method = "USE_FULL_RD"
  /\ sf.max_intra_bsize = "BLOCK_32X32"

\* Scenario B: REALTIME, speed 6, screen content, inter frame, one pass.
ScenarioB ==
  /\ Resolved
  /\ ctx.mode = "REALTIME" /\ ctx.speed = 6
  /\ ctx.content = "AOM_CONTENT_SCREEN"
  /\ ctx.frame_type # "KEY_FRAME" /\ ctx.pass = 0

\* C7: in scenario B, for every geometry and every other input,
\* partition_search_type = VAR_BASED_PARTITION, mv.search_method = NSTEP,
\* recode_loop = DISALLOW_RECODE and optimize_coefficients = 0.
C7_ScenarioB ==
  ScenarioB =>
    /\ sf.partition_search_type = "VAR_BASED_PARTITION"
    /\ sf.mv.search_method = "NSTEP"
    /\ sf.recode_loop = "DISALLOW_RECODE"
    /\ sf.optimize_coefficients = 0

\* Scenario B on a 1080p frame, with the screen content intra mask in place.
C7_Witness ==
  /\ ScenarioB
  /\ ctx.width = 1920
  /\ sf.mv.search_method = "NSTEP"
  /\ sf.intra_y_mode_bsize_mask["BLOCK_8X8"] = INTRA_DC_TM_H_V

\* C8: in BEST mode with graphics/animation content, at every speed,
\* exhaustive_searches_thresh = 2^20, max_exaustive_pct = 100 and
\* mesh_patterns is {64,4},{28,2},{15,1},{7,1}.
C8_BestMeshTable ==
  Resolved /\ ctx.mode = "BEST" /\
  ctx.fr_content_type = "FC_GRAPHICS_ANIMATION" =>
    /\ sf.exhaustive_searches_thresh = 1048576
    /\ sf.max_exaustive_pct = 100
    /\ DOMAIN sf.mesh_patterns = 1 .. MAX_MESH_STEP
    /\ sf.mesh_patterns[1] = [range |-> 64, interval |-> 4]
    /\ sf.mesh_patterns[2] = [range |-> 28, interval |-> 2]
    /\ sf.mesh_patterns[3] = [range |-> 15, interval |-> 1]
    /\ sf.mesh_patterns[4] = [range |-> 7, interval |-> 1]

\* A BEST profile for graphics/animation content at a speed beyond every
\* table.
C8_Witness ==
  /\ Resolved
  /\ ctx.mode = "BEST" /\ ctx.fr_content_type = "FC_GRAPHICS_ANIMATION"
  /\ ctx.speed = MaxSpeed
  /\ sf.exhaustive_searches_thresh = 1048576

Min(a, b) == IF a < b THEN a ELSE b

\* The profile the two resolvers leave for the current frame at speed s when
\* they start from the record as it is now (the fields neither resolver
\* writes keep their values).
ReresolvedAtSpeed(s) == FullResolve(build, [ctx EXCEPT !.speed = s], sf)

\* C9: a GOOD profile at a speed above 6 equals the speed 6 profile and a
\* REALTIME profile at a speed above 8 the speed 8 profile, in every field;
\* outside BEST the mesh pattern and the cap are row min(speed, 5) of the
\* good quality tables.
C9_Saturation ==
  Resolved =>
    /\ ctx.mode = "GOOD" /\ ctx.speed > 6 => sf = ReresolvedAtSpeed(6)
    /\ ctx.mode = "REALTIME" /\ ctx.speed > 8 => sf = ReresolvedAtSpeed(8)
    /\ ctx.mode # "BEST" =>
         /\ Min(ctx.speed, 5) <= MAX_MESH_SPEED
         /\ sf.max_exaustive_pct =
              good_quality_max_mesh_pct[Min(ctx.speed, 5) + 1]
         /\ \A i \in 1 .. MAX_MESH_STEP :
              sf.mesh_patterns[i] =
                good_quality_mesh_patterns[Min(ctx.speed, 5) + 1][i]

\* A REALTIME profile at a speed above the last tier.
C9_Witness ==
  /\ Resolved
  /\ ctx.mode = "REALTIME" /\ ctx.speed > 8
  /\ sf.lpf_pick = "LPF_PICK_MINIMAL_LPF"
  /\ sf.max_exaustive_pct = 1

\* The threshold resolved for the current frame with content class fc and
\* speed s.
ThreshFor(fc, s) ==
  FullResolve(build, [ctx EXCEPT !.fr_content_type = fc, !.speed = s],
              ZeroedSf(build)).exhaustive_searches_thresh

\* C10 as stated: in BEST the threshold for graphics/animation content is
\* twice the one for default content; outside BEST the threshold at speed 0
\* is twice the one at any speed >= 1.
C10_Thresholds_AsStated ==
  Resolved =>
    /\ ctx.mode = "BEST" /\ ctx.fr_content_type = "FC_GRAPHICS_ANIMATION"
         => sf.exhaustive_searches_thresh =
              2 * ThreshFor("FC_NORMAL", ctx.speed)
    /\ ctx.mode # "BEST" /\ ctx.speed >= 1
         => ThreshFor(ctx.fr_content_type, 0) =
              2 * sf.exhaustive_searches_thresh

\* C10 amended: in BEST the threshold for graphics/animation content is half
\* the one for default content (2^20 against 2^21); outside BEST, for the
\* same content class, the threshold at any speed >= 1 is twice the one at
\* speed 0.
C10_Thresholds ==
  Resolved =>
    /\ ctx.mode = "BEST" /\ ctx.fr_content_type = "FC_GRAPHICS_ANIMATION"
         => /\ 2 * sf.exhaustive_searches_thresh =
                 ThreshFor("FC_NORMAL", ctx.speed)
            /\ sf.exhaustive_searches_thresh = 1048576
    /\ ctx.mode # "BEST" /\ ctx.speed >= 1
         => sf.exhaustive_searches_thresh =
              2 * ThreshFor(ctx.fr_content_type, 0)

\* A GOOD profile at speed 1 whose threshold is the doubled one.
C10_Witness ==
  /\ Resolved
  /\ ctx.mode = "GOOD" /\ ctx.speed = 1
  /\ ctx.fr_content_type = "FC_NORMAL"
  /\ sf.exhaustive_searches_thresh = 16777216

\* Some speed tier of the configured mode assigns
\* partition_search_breakout_dist_thr.
TierAssignsBreakout ==
  \/ ctx.mode = "GOOD" /\ ctx.speed >= 1
  \/ ctx.mode = "REALTIME" /\ ctx.speed >= 5

\* The shift amount of the highest firing tier that assigns the threshold.
TierBreakoutShift ==
  LET large == AOMMIN(ctx.width, ctx.height) >= 720
  IN IF ctx.mode = "REALTIME" THEN (IF large THEN 25 ELSE 23)
     ELSE IF ctx.speed >= 4 THEN (IF large THEN 26 ELSE 24)
     ELSE IF ctx.speed = 3 THEN (IF large THEN 25 ELSE 23)
     ELSE IF ctx.speed = 2 THEN (IF large THEN 24 ELSE 22)
     ELSE (IF large THEN 23 ELSE 21)

\* C11: with MAX_SB_SIZE_LOG2 > 6, in every mode, speed and geometry for
\* which a tier assigns it, the resolved partition_search_breakout_dist_thr
\* is the value of the highest firing tier shifted left by
\* 2 * (MAX_SB_SIZE_LOG2 - 6).
C11_BreakoutNormalisedLast ==
  Resolved /\ MAX_SB_SIZE_LOG2(build) > 6 /\ TierAssignsBreakout =>
    sf.partition_search_breakout_dist_thr =
      (2 ^ TierBreakoutShift) * (2 ^ (2 * (MAX_SB_SIZE_LOG2(build) - 6)))

\* What the code leaves there: the tier value as assigned, for either
\* superblock size.
C11_BreakoutAsAssigned ==
  Resolved /\ TierAssignsBreakout =>
    sf.partition_search_breakout_dist_thr = 2 ^ TierBreakoutShift

\* C12: in GOOD mode with pass = 2, on graphics/animation content or a frame
\* with an internal image edge, the resolved disable_split_mask is
\* DISABLE_COMPOUND_SPLIT at every speed >= 1 and every geometry.
C12_ContentResetWins ==
  Resolved /\ ctx.mode = "GOOD" /\ ctx.pass = 2 /\ ContentReset /\
  ctx.speed >= 1
    => sf.disable_split_mask = DISABLE_COMPOUND_SPLIT

\* What the code leaves there: the reset survives at speeds 1..3 only, from
\* speed 4 on the tier that follows it disables every split.
C12_ContentResetBelowTier4 ==
  Resolved /\ ctx.mode = "GOOD" /\ ctx.pass = 2 /\ ContentReset /\
  ctx.speed >= 1
    => sf.disable_split_mask =
         IF ctx.speed >= 4 THEN DISABLE_ALL_SPLIT ELSE DISABLE_COMPOUND_SPLIT

\* C13: every call of av1_set_speed_features_framesize_dependent leaves
\* thresh_mult_sub8x8[i] = INT_MAX for each reference i whose bit is set in
\* the resolved disable_split_mask, and leaves each entry whose bit is clear
\* at the value it had before the call: an INT_MAX written on an earlier
\* frame is not taken back.
C13_SentinelExclusion ==
  [][pc = "independent" /\ pc' = "dependent" =>
       \A i \in 0 .. MAX_REFS - 1 :
         IF RefSeq[i + 1] \in sf'.disable_split_mask
           THEN rd'.thresh_mult_sub8x8[i] = INT_MAX
           ELSE rd'.thresh_mult_sub8x8[i] = rd.thresh_mult_sub8x8[i]]_vars

\* A resolved frame with a masked reference at INT_MAX and an unmasked one
\* still at the INT_MAX of an earlier frame.
C13_Witness ==
  /\ Resolved
  /\ \E i \in 0 .. MAX_REFS - 1 :
       /\ RefSeq[i + 1] \in sf.disable_split_mask
       /\ rd.thresh_mult_sub8x8[i] = INT_MAX
  /\ \E i \in 0 .. MAX_REFS - 1 :
       /\ RefSeq[i + 1] \notin sf.disable_split_mask
       /\ rd.thresh_mult_sub8x8[i] = INT_MAX

====
